---- MODULE Spec2Model ----
(***************************************************************************)
(* Model of misc/jobserver_pool.py: the GNU Make jobserver pool provider.  *)
(* One supervisor process runs main(): it creates a token reservoir (POSIX *)
(* FIFO, POSIX pipe or Win32 semaphore), spawns the command, waits for the *)
(* immediately spawned child, audits the reservoir and releases it.  The   *)
(* supervised tree (the child and its descendants) acquires and releases   *)
(* tokens through the operating system primitive, concurrently with main.  *)
(***************************************************************************)
EXTENDS Integers, Sequences, FiniteSets, TLC

\* ------------------------------------------------------------------ bounds
MaxJobs == 3
MaxCapacity == 2
MaxExitCode == 2
NClients == 2
MaxTasks == 3
MaxLeak == 1
MaxExtra == 1
MaxEchoJobs == 12

Backends == {"fifo", "pipe", "sem"}
JobsCounts == 0..MaxJobs
ExitCodes == 0..MaxExitCode
Clients == 1..NClients
Capacities == 1..MaxCapacity

VARIABLES
    \* command line of the supervisor and properties of the host
    jobs_count,     \* args.jobs_count
    backend,        \* "sem" when _IS_WINDOWS, else "pipe" when args.pipe, else "fifo"
    no_check,       \* args.no_check
    capacity,       \* bytes the kernel buffer of a FIFO/pipe holds
    command,        \* args.command is not empty
    help_usage,     \* args.help_usage
    environ,        \* os.environ of the supervisor: variable name -> text
    cwd,            \* the supervisor's working directory
    fifo_arg,       \* args.fifo
    sem_name,       \* args.name
    pipe_fds,       \* the descriptors os.pipe() hands out
    os_fail,        \* the system call of the creation that the host fails
    \* the supervisor, main()
    pc,             \* position of main()
    pool,           \* tokens in the reservoir: bytes in the FIFO/pipe, semaphore count
    ret,            \* <<>> until subprocess.run returned, then <<ret.returncode>>
    exit_code,      \* main's local exit_code
    read_count,     \* the auditor's local read_count
    reads,          \* os.read / ReleaseSemaphore calls issued by the auditor
    report,         \* the message the auditor printed
    raised,         \* an exception is propagating out of main()
    exit_status,    \* <<>> while running, then <<status>> of the supervisor process
    audit_k,        \* tokens in the reservoir when the auditor started
    audit_live,     \* processes of the supervised tree alive when the auditor started
    fifo_path,      \* main's local fifo_path, "" until assigned
    env,            \* <<>> until create_* returned, then <<the dict it built>>
    child_env,      \* <<>> until the command was spawned, then <<its environment>>
    pass_fds,       \* descriptors of the supervisor kept open in the command
    fifo_file,      \* what is at the FIFO path: "none", "stale", this run's "fifo",
                    \* or the "nested" FIFO of a run the command started there
    res_bound,      \* main's read_fd, write_fd (or handle) have been assigned
    error,          \* class of the exception that is propagating
    filled,         \* bytes accepted by the os.write of the creation
    \* the supervised tree
    cstate,         \* per client: "unborn", "alive", "exited"
    held,           \* per client: tokens acquired and not yet released
    running,        \* per client: jobs it is running now
    todo,           \* jobs of the build still queued, for any client to start
    leaked,         \* tokens lost by clients that exited holding them
    extra           \* releases of a token that was never acquired

argVars == <<jobs_count, backend, no_check, capacity, command, help_usage,
             environ, cwd, fifo_arg, sem_name, pipe_fds, os_fail>>
mainVars == <<pc, ret, exit_code, read_count, reads, report, raised, exit_status,
              audit_k, audit_live>>
clientVars == <<cstate, held, running, todo, leaked, extra>>
ioVars == <<fifo_path, env, child_env, pass_fds, fifo_file, res_bound, error,
            filled>>
vars == <<argVars, mainVars, ioVars, pool, clientVars>>

\* ----------------------------------------------------------------- helpers
RECURSIVE SumOver(_, _)
SumOver(f, S) == IF S = {} THEN 0
                 ELSE LET x == CHOOSE y \in S : TRUE
                      IN f[x] + SumOver(f, S \ {x})

Min(a, b) == IF a < b THEN a ELSE b

IsPosix == backend \in {"fifo", "pipe"}

NoReport == [kind |-> "none", n |-> 0]

\* jobs_count * b"x": a token for the implicit slot too
InitialTokensWithImplicit(n) == n

\* (jobs_count - 1) * b"x", and the initial count given to CreateSemaphore
InitialTokens(n) == n - 1

\* CreateSemaphore(None, jobs_count - 1, jobs_count, name): a maximum with
\* room for one more than the initial count
SemMaximumWithImplicit(n) == n

\* the maximum count given to CreateSemaphore
SemMaximum(n) == n - 1

\* os.write on the O_NONBLOCK write end of an empty FIFO: what fits is
\* written, the rest is dropped, and the count written is the return value
\* (which create_fifo does not look at)
NonBlockingWrite(n, cap) == Min(n, cap)

Alive == {c \in Clients : cstate[c] = "alive"}
HeldTotal == SumOver(held, Clients)
RunningTotal == SumOver(running, Clients)

\* -------------------------------------------------------------------- text
\* A str is the sequence of its characters.
DigitChars == <<"0", "1", "2", "3", "4", "5", "6", "7", "8", "9">>

\* the decimal digits of n written lowest first
RECURSIVE FormatIntLowDigitFirst(_)
FormatIntLowDigitFirst(n) ==
    IF n < 0 THEN <<"-">> \o FormatIntLowDigitFirst(0 - n)
    ELSE IF n < 10 THEN <<DigitChars[n + 1]>>
    ELSE <<DigitChars[(n % 10) + 1]>> \o FormatIntLowDigitFirst(n \div 10)

\* f"{n}" for an int n
RECURSIVE FormatInt(_)
FormatInt(n) ==
    IF n < 0 THEN <<"-">> \o FormatInt(0 - n)
    ELSE IF n < 10 THEN <<DigitChars[n + 1]>>
    ELSE FormatInt(n \div 10) \o <<DigitChars[(n % 10) + 1]>>

\* the literals of the MAKEFLAGS f-strings
JFlag == <<" ", "-", "j">>
AuthFlag == <<" ", "-", "-", "j", "o", "b", "s", "e", "r", "v", "e", "r", "-",
              "a", "u", "t", "h", "=">>
FdsFlag == <<" ", "-", "-", "j", "o", "b", "s", "e", "r", "v", "e", "r", "-",
             "f", "d", "s", "=">>
FifoScheme == <<"f", "i", "f", "o", ":">>

\* _DEFAULT_NAME
DefaultName == <<"j", "o", "b", "s", "e", "r", "v", "e", "r", "_", "p", "o",
                 "o", "l">>

\* f" -j{jobs_count} --jobserver-auth=fifo:" + path, without the fifo: scheme
MakeflagsFifoBarePath(n, path) == JFlag \o FormatInt(n) \o AuthFlag \o path

\* f" -j{jobs_count} --jobserver-auth=fifo:" + path
MakeflagsFifo(n, path) ==
    JFlag \o FormatInt(n) \o AuthFlag \o FifoScheme \o path

\* f" -j{jobs_count} --jobserver-fds={read_fd},{write_fd}
\*    --jobserver-auth={read_fd},{write_fd}"
MakeflagsPipe(n, read_fd, write_fd) ==
    JFlag \o FormatInt(n)
    \o FdsFlag \o FormatInt(read_fd) \o <<",">> \o FormatInt(write_fd)
    \o AuthFlag \o FormatInt(read_fd) \o <<",">> \o FormatInt(write_fd)

\* f" -j{jobs_count} --jobserver-auth=" + sem_name
MakeflagsSem(n, name) == JFlag \o FormatInt(n) \o AuthFlag \o name

\* os.path.abspath(p) in the directory dir, for a p without "." or ".."
\* components, which is all the inputs here have
Abspath(dir, p) ==
    IF p # <<>> /\ p[1] = "/" THEN p ELSE dir \o <<"/">> \o p

\* env[name] = value that keeps what the variable held and appends to it
SetEnvAppending(e, name, value) ==
    [x \in DOMAIN e \cup {name} |->
        IF x # name THEN e[x]
        ELSE IF name \in DOMAIN e THEN e[name] \o value ELSE value]

\* env = dict(os.environ); env[name] = value
SetEnv(e, name, value) ==
    [x \in DOMAIN e \cup {name} |-> IF x = name THEN value ELSE e[x]]

\* --- jobserver_pool_test.py: _simple_scanf
IsDigit(ch) == \E i \in 1..Len(DigitChars) : DigitChars[i] = ch
DigitValue(ch) == (CHOOSE i \in 1..Len(DigitChars) : DigitChars[i] = ch) - 1

\* what \s matches, among the characters used here
IsSpace(ch) == ch \in {" ", "\t", "\n"}

\* length of the longest prefix of s made of digits: the greedy (\d+)
RECURSIVE LeadingDigits(_)
LeadingDigits(s) ==
    IF s # <<>> /\ IsDigit(Head(s)) THEN 1 + LeadingDigits(Tail(s)) ELSE 0

\* length of the longest prefix of s free of whitespace: the greedy (\S+)
RECURSIVE LeadingNonSpace(_)
LeadingNonSpace(s) ==
    IF s # <<>> /\ ~IsSpace(Head(s)) THEN 1 + LeadingNonSpace(Tail(s)) ELSE 0

\* int(m.group(i)) of a run of digits
RECURSIVE ParseInt(_)
ParseInt(ds) ==
    IF ds = <<>> THEN 0
    ELSE ParseInt(SubSeq(ds, 1, Len(ds) - 1)) * 10 + DigitValue(ds[Len(ds)])

NoMatch == [ok |-> FALSE, values |-> <<>>]

\* _simple_scanf(pattern, input): the pattern becomes a regular expression,
\* %d a (\d+) group, %s a (\S+) group, %% a percent sign, anything else
\* itself, and re.match anchors it at the start of the input only.  In the
\* patterns used a group is followed by a space or by the end, so the
\* greedy group never has to give characters back.
RECURSIVE SimpleScanf(_, _)
SimpleScanf(pattern, input) ==
    IF pattern = <<>> THEN [ok |-> TRUE, values |-> <<>>]
    ELSE IF pattern[1] = "%" /\ Len(pattern) >= 2
    THEN LET formatter == pattern[2]
             rest == SubSeq(pattern, 3, Len(pattern))
             k == IF formatter = "d" THEN LeadingDigits(input)
                  ELSE IF formatter = "s" THEN LeadingNonSpace(input)
                  ELSE IF input # <<>> /\ input[1] = "%" THEN 1 ELSE 0
             group == SubSeq(input, 1, k)
             m == SimpleScanf(rest, SubSeq(input, k + 1, Len(input)))
         IN IF k = 0 \/ ~m.ok THEN NoMatch
            ELSE [ok |-> TRUE,
                  values |-> (IF formatter = "d" THEN <<ParseInt(group)>>
                              ELSE IF formatter = "s" THEN <<group>>
                              ELSE <<>>) \o m.values]
    ELSE IF input # <<>> /\ input[1] = pattern[1]
    THEN SimpleScanf(Tail(pattern), Tail(input))
    ELSE NoMatch

\* _test_echo_MAKEFLAGS: expected_format
ExpectedFormat ==
    IF backend = "sem" THEN JFlag \o <<"%", "d">> \o AuthFlag \o <<"%", "s">>
    ELSE JFlag \o <<"%", "d">> \o AuthFlag \o FifoScheme \o <<"%", "s">>

\* ------------------------------------------------------------- input sets
\* system calls of the creation that the host may fail, per backend
FailPoints(b) ==
    CASE b = "fifo" -> {"none", "remove", "mkfifo", "open_read", "open_write",
                        "write"}
      [] b = "pipe" -> {"none", "pipe", "write"}
      [] b = "sem" -> {"none", "CreateSemaphore"}

Path == <<"/", "b">>
InheritedFlags == <<"-", "k">>
Environs == {[v \in {"PATH"} |-> Path],
             [v \in {"PATH", "MAKEFLAGS"} |->
                 IF v = "PATH" THEN Path ELSE InheritedFlags]}
Cwds == {<<"/", "w">>, <<"/", "m", " ", "y">>}
FifoArgs == {DefaultName, <<"/", "t", "/", "p">>, <<"a", " ", "b">>}
SemNames == {DefaultName, <<"n">>, <<"a", " ", "b">>}
PipeFds == {<<3, 4>>, <<9, 10>>}

\* -------------------------------------------------------------------- Init
\* the state main() starts in, for the given sets of inputs
InitWith(jobs, environs, cwds, fifos, names, fds, files) ==
    /\ jobs_count \in jobs
    /\ backend \in Backends
    /\ no_check \in BOOLEAN
    /\ capacity \in (IF backend = "sem" THEN {MaxCapacity} ELSE Capacities)
    /\ command \in BOOLEAN
    /\ help_usage \in BOOLEAN
    /\ environ \in environs
    /\ cwd \in cwds
    /\ fifo_arg \in (IF backend = "fifo" THEN fifos ELSE {DefaultName})
    /\ sem_name \in (IF backend = "sem" THEN names ELSE {DefaultName})
    /\ pipe_fds \in (IF backend = "pipe" THEN fds ELSE {<<3, 4>>})
    /\ fifo_file \in files
    /\ os_fail \in (IF jobs_count > 0 /\ ~help_usage /\ command
                    THEN FailPoints(backend) ELSE {"none"})
    /\ os_fail = "remove" => fifo_file = "stale"
    /\ pc = "start"
    /\ pool = 0
    /\ ret = <<>>
    /\ exit_code = 0
    /\ read_count = 0
    /\ reads = 0
    /\ report = NoReport
    /\ raised = FALSE
    /\ exit_status = <<>>
    /\ audit_k = 0
    /\ audit_live = 0
    /\ fifo_path = <<>>
    /\ env = <<>>
    /\ child_env = <<>>
    /\ pass_fds = {}
    /\ res_bound = FALSE
    /\ error = "none"
    /\ filled = 0
    /\ cstate = [c \in Clients |-> "unborn"]
    /\ held = [c \in Clients |-> 0]
    /\ running = [c \in Clients |-> 0]
    /\ todo = MaxTasks
    /\ leaked = 0
    /\ extra = 0

\* a build under the default names, with MAKEFLAGS inherited and a file
\* left at the FIFO path by an earlier run
Init ==
    InitWith(JobsCounts,
             {e \in Environs : "MAKEFLAGS" \in DOMAIN e},
             {<<"/", "w">>}, {DefaultName}, {DefaultName}, {<<3, 4>>},
             {"stale"})

\* ---------------------------------------------------- main(): creation
\* exit status of a Python process that ends with an uncaught exception
UncaughtExceptionStatus == 1

\* exit status of argparse's parser.error()
ArgparseErrorStatus == 2

\* the value check_pipe_tokens / check_sem_count return on a mismatch
AuditFailureCode == 1

\* main() goes past the tests of args.help_usage and args.command
Proceeds == ~help_usage /\ command

\* if args.help_usage: return print_usage()
PrintUsage ==
    /\ pc = "start"
    /\ help_usage
    /\ exit_code' = 0
    /\ pc' = "return"
    /\ UNCHANGED <<argVars, ioVars, pool, ret, read_count, reads, report,
                   raised, exit_status, audit_k, audit_live, clientVars>>

\* parser.error(...) that lets the exception leave main() as any other does
ParserErrorAsTraceback ==
    /\ pc = "start"
    /\ ~help_usage
    /\ ~command
    /\ exit_status' = <<UncaughtExceptionStatus>>
    /\ pc' = "done"
    /\ UNCHANGED <<argVars, ioVars, pool, ret, exit_code, read_count, reads,
                   report, raised, audit_k, audit_live, clientVars>>

\* if not args.command: parser.error(...): usage on stderr, then sys.exit
ParserError ==
    /\ pc = "start"
    /\ ~help_usage
    /\ ~command
    /\ exit_status' = <<ArgparseErrorStatus>>
    /\ pc' = "done"
    /\ UNCHANGED <<argVars, ioVars, pool, ret, exit_code, read_count, reads,
                   report, raised, audit_k, audit_live, clientVars>>

\* what is at the path once create_fifo has failed in the call f
FileAfterFailure(f) ==
    IF f = "remove" THEN fifo_file
    ELSE IF f = "mkfifo" THEN "none"
    ELSE "fifo"

\* fifo_path = os.path.abspath(args.fifo), then create_fifo: remove what is
\* at the path, mkfifo, open both ends O_NONBLOCK, write the tokens, build
\* env.  An exception of create_fifo leaves main's read_fd, write_fd and env
\* unassigned.
CreateFifo ==
    /\ pc = "start"
    /\ Proceeds
    /\ jobs_count > 0
    /\ backend = "fifo"
    /\ fifo_path' = Abspath(cwd, fifo_arg)
    /\ IF os_fail = "none"
       THEN /\ fifo_file' = "fifo"
            /\ filled' = NonBlockingWrite(InitialTokens(jobs_count), capacity)
            /\ pool' = filled'
            /\ env' = <<SetEnv(environ, "MAKEFLAGS",
                               MakeflagsFifo(jobs_count, fifo_path'))>>
            /\ res_bound' = TRUE
            /\ pc' = "created"
            /\ UNCHANGED <<raised, error>>
       ELSE /\ fifo_file' = FileAfterFailure(os_fail)
            /\ raised' = TRUE
            /\ error' = "OSError"
            /\ pc' = "finally"
            /\ UNCHANGED <<pool, filled, env, res_bound>>
    /\ UNCHANGED <<argVars, child_env, pass_fds, ret, exit_code, read_count,
                   reads,
                   report, exit_status, audit_k, audit_live, clientVars>>

\* create_pipe: os.pipe, blocking os.write of the tokens, build env; nothing
\* reads the pipe yet, so a write larger than the buffer never returns
CreatePipe ==
    /\ pc = "start"
    /\ Proceeds
    /\ jobs_count > 0
    /\ backend = "pipe"
    /\ IF os_fail # "none"
       THEN /\ raised' = TRUE
            /\ error' = "OSError"
            /\ pc' = "finally"
            /\ UNCHANGED <<pool, filled, env, res_bound>>
       ELSE IF InitialTokens(jobs_count) <= capacity
       THEN /\ filled' = InitialTokens(jobs_count)
            /\ pool' = filled'
            /\ env' = <<SetEnv(environ, "MAKEFLAGS",
                               MakeflagsPipe(jobs_count, pipe_fds[1],
                                             pipe_fds[2]))>>
            /\ res_bound' = TRUE
            /\ pc' = "created"
            /\ UNCHANGED <<raised, error>>
       ELSE /\ filled' = capacity
            /\ pool' = capacity
            /\ pc' = "fill_blocked"
            /\ UNCHANGED <<env, res_bound, raised, error>>
    /\ UNCHANGED <<argVars, fifo_path, child_env, pass_fds, fifo_file, ret,
                   exit_code,
                   read_count, reads, report, exit_status, audit_k,
                   audit_live, clientVars>>

\* create_sem: CreateSemaphore(None, jobs_count - 1, jobs_count - 1, name),
\* build env; Win32 rejects a maximum count that is not greater than zero
CreateSem ==
    /\ pc = "start"
    /\ Proceeds
    /\ jobs_count > 0
    /\ backend = "sem"
    /\ IF os_fail # "none" \/ SemMaximum(jobs_count) <= 0
       THEN /\ raised' = TRUE
            /\ error' = "pywintypes.error"
            /\ pc' = "finally"
            /\ UNCHANGED <<pool, filled, env, res_bound>>
       ELSE /\ filled' = InitialTokens(jobs_count)
            /\ pool' = filled'
            /\ env' = <<SetEnv(environ, "MAKEFLAGS",
                               MakeflagsSem(jobs_count, sem_name))>>
            /\ res_bound' = TRUE
            /\ pc' = "created"
            /\ UNCHANGED <<raised, error>>
    /\ UNCHANGED <<argVars, fifo_path, child_env, pass_fds, fifo_file, ret,
                   exit_code,
                   read_count, reads, report, exit_status, audit_k,
                   audit_live, clientVars>>

\* the environment of the command, had the disabled mode cleared MAKEFLAGS
ChildEnvironmentWithoutFlags ==
    IF jobs_count <= 0
    THEN [x \in DOMAIN environ \ {"MAKEFLAGS"} |-> environ[x]]
    ELSE env[1]

\* subprocess.run(args.command) without env=env in every mode
ChildEnvironmentInherited == environ

\* the environment subprocess.run gives the command: env=env where a pool
\* was created, the supervisor's own where the feature is disabled
ChildEnvironment == IF jobs_count <= 0 THEN environ ELSE env[1]

\* the spawn keeping both descriptors open in every mode
PassFdsAlways == {pipe_fds[1], pipe_fds[2]}

\* pass_fds=(read_fd, write_fd) in pipe mode only.  subprocess.run closes
\* every other descriptor above 2 in the command (close_fds), and the
\* descriptors os.open gave create_fifo are not inheritable anyway.
PassFds ==
    IF jobs_count > 0 /\ backend = "pipe"
    THEN {pipe_fds[1], pipe_fds[2]}
    ELSE {}

\* subprocess.run(args.command, ...): the spawn; Popen raises when the
\* command cannot be executed
SpawnChild(ok) ==
    /\ \/ pc = "start" /\ Proceeds /\ jobs_count <= 0
       \/ pc = "created"
    /\ IF ok
       THEN /\ cstate' = [cstate EXCEPT ![1] = "alive"]
            /\ child_env' = <<ChildEnvironment>>
            /\ pass_fds' = PassFds
            /\ pc' = "running"
            /\ UNCHANGED <<raised, error>>
       ELSE /\ raised' = TRUE
            /\ error' = "OSError"
            /\ pc' = IF jobs_count <= 0 THEN "raise" ELSE "finally"
            /\ UNCHANGED <<cstate, child_env, pass_fds>>
    /\ UNCHANGED <<argVars, fifo_path, env, fifo_file, res_bound, filled,
                   pool, ret, exit_code, read_count, reads, report,
                   exit_status, audit_k, audit_live, held, running, todo,
                   leaked, extra>>

\* ------------------------------------------------- main(): wait and audit
\* AfterWait without the test of exit_code: the audit also follows a failed
\* command
AfterWaitAuditsFailures ==
    /\ pc = "waited"
    /\ exit_code' = ret[1]
    /\ pc' = IF jobs_count <= 0 THEN "return"
             ELSE IF ~no_check THEN "check"
             ELSE "finally"
    /\ UNCHANGED <<argVars, ioVars, pool, ret, read_count, reads, report, raised,
                   exit_status, audit_k, audit_live, clientVars>>

\* exit_code = ret.returncode, then the decision to audit
AfterWait ==
    /\ pc = "waited"
    /\ exit_code' = ret[1]
    /\ pc' = IF jobs_count <= 0 THEN "return"
             ELSE IF exit_code' = 0 /\ ~no_check THEN "check"
             ELSE "finally"
    /\ UNCHANGED <<argVars, ioVars, pool, ret, read_count, reads, report, raised,
                   exit_status, audit_k, audit_live, clientVars>>

\* check_pipe_tokens up to the drain loop
CheckPipeTokens ==
    /\ pc = "check"
    /\ IsPosix
    /\ IF jobs_count <= 1
       THEN /\ exit_code' = 0
            /\ pc' = "finally"
            /\ UNCHANGED <<read_count, audit_k, audit_live>>
       ELSE /\ read_count' = 0
            /\ audit_k' = pool
            /\ audit_live' = Cardinality(Alive)
            /\ pc' = "drain"
            /\ UNCHANGED exit_code
    /\ UNCHANGED <<argVars, ioVars, pool, ret, reads, report, raised, exit_status,
                   clientVars>>

\* DrainRead with os.read(read_fd, 2): up to two bytes leave the reservoir
\* and one is counted
DrainReadTwo ==
    /\ pc = "drain"
    /\ reads' = reads + 1
    /\ IF pool > 0
       THEN /\ pool' = pool - Min(2, pool)
            /\ read_count' = read_count + 1
            /\ UNCHANGED pc
       ELSE /\ pc' = "compare"
            /\ UNCHANGED <<pool, read_count>>
    /\ UNCHANGED <<argVars, ioVars, ret, exit_code, report, raised, exit_status,
                   audit_k, audit_live, clientVars>>

\* DrainRead on a blocking read end: os.read returns only once a byte is
\* there
DrainReadBlocking ==
    /\ pc = "drain"
    /\ pool > 0
    /\ reads' = reads + 1
    /\ pool' = pool - 1
    /\ read_count' = read_count + 1
    /\ UNCHANGED <<argVars, ioVars, pc, ret, exit_code, report, raised,
                   exit_status, audit_k, audit_live, clientVars>>

\* one turn of the loop: os.read(read_fd, 1) on the non-blocking read end
DrainRead ==
    /\ pc = "drain"
    /\ reads' = reads + 1
    /\ IF pool > 0
       THEN /\ pool' = pool - 1
            /\ read_count' = read_count + 1
            /\ UNCHANGED pc
       ELSE /\ pc' = "compare"
            /\ UNCHANGED <<pool, read_count>>
    /\ UNCHANGED <<argVars, ioVars, ret, exit_code, report, raised, exit_status,
                   audit_k, audit_live, clientVars>>

\* CompareResult returning the discrepancy itself as the exit code
CompareResultCodeIsDifference(count, jobs) ==
    LET expected_count == jobs - 1
    IN IF count < expected_count
       THEN [code |-> expected_count - count,
             report |-> [kind |-> "missing", n |-> expected_count - count]]
       ELSE IF count > expected_count
       THEN [code |-> count - expected_count,
             report |-> [kind |-> "extra", n |-> count - expected_count]]
       ELSE [code |-> 0, report |-> NoReport]

\* CompareResult without its second test: a surplus passes
CompareResultForgivesExtra(count, jobs) ==
    LET expected_count == jobs - 1
    IN IF count < expected_count
       THEN [code |-> AuditFailureCode,
             report |-> [kind |-> "missing", n |-> expected_count - count]]
       ELSE [code |-> 0, report |-> NoReport]

\* the comparison of read_count with expected_count and the value returned
CompareResult(count, jobs) ==
    LET expected_count == jobs - 1
    IN IF count < expected_count
       THEN [code |-> AuditFailureCode,
             report |-> [kind |-> "missing", n |-> expected_count - count]]
       ELSE IF count > expected_count
       THEN [code |-> AuditFailureCode,
             report |-> [kind |-> "extra", n |-> count - expected_count]]
       ELSE [code |-> 0, report |-> NoReport]

ComparePipe ==
    /\ pc = "compare"
    /\ LET r == CompareResult(read_count, jobs_count)
       IN /\ exit_code' = r.code
          /\ report' = r.report
    /\ pc' = "finally"
    /\ UNCHANGED <<argVars, ioVars, pool, ret, read_count, reads, raised, exit_status,
                   audit_k, audit_live, clientVars>>

\* check_sem_count: ReleaseSemaphore(handle, 1) returns the previous count;
\* Win32 refuses a release that would exceed the maximum and leaves the
\* count as it was, and pywin32 raises
CheckSemCount ==
    /\ pc = "check"
    /\ backend = "sem"
    /\ IF jobs_count <= 1
       THEN /\ exit_code' = 0
            /\ pc' = "finally"
            /\ UNCHANGED <<pool, read_count, reads, report, raised, error,
                           audit_k, audit_live>>
       ELSE /\ reads' = reads + 1
            /\ audit_k' = pool
            /\ audit_live' = Cardinality(Alive)
            /\ pc' = "finally"
            /\ IF pool + 1 > SemMaximum(jobs_count)
               THEN /\ raised' = TRUE
                    /\ error' = "pywintypes.error"
                    /\ UNCHANGED <<pool, read_count, exit_code, report>>
               ELSE /\ pool' = pool + 1
                    /\ read_count' = pool
                    /\ LET r == CompareResult(pool, jobs_count)
                       IN /\ exit_code' = r.code
                          /\ report' = r.report
                    /\ UNCHANGED <<raised, error>>
    /\ UNCHANGED <<argVars, fifo_path, env, child_env, pass_fds, fifo_file,
                   res_bound,
                   filled, ret, exit_status, clientVars>>

\* the finally block without its os.remove(fifo_path)
FinallyKeepsFifo ==
    /\ pc = "finally"
    /\ IF ~res_bound
       THEN /\ raised' = TRUE
            /\ error' = "UnboundLocalError"
       ELSE UNCHANGED <<raised, error>>
    /\ pc' = IF raised' THEN "raise" ELSE "return"
    /\ UNCHANGED <<argVars, fifo_path, env, child_env, pass_fds, fifo_file,
                   res_bound,
                   filled, pool, ret, exit_code, read_count, reads, report,
                   exit_status, audit_k, audit_live, clientVars>>

\* the finally block removing the file at the default path in pipe mode too
FinallyRemovesAnyMode ==
    /\ pc = "finally"
    /\ IF ~res_bound
       THEN /\ raised' = TRUE
            /\ error' = "UnboundLocalError"
            /\ UNCHANGED fifo_file
       ELSE /\ fifo_file' = IF IsPosix THEN "none" ELSE fifo_file
            /\ UNCHANGED <<raised, error>>
    /\ pc' = IF raised' THEN "raise" ELSE "return"
    /\ UNCHANGED <<argVars, fifo_path, env, child_env, pass_fds, res_bound,
                   filled, pool, ret, exit_code, read_count, reads, report,
                   exit_status, audit_k, audit_live, clientVars>>

\* the finally block: os.close(read_fd), os.close(write_fd) and, if
\* fifo_path, os.remove(fifo_path); win32api.CloseHandle(handle) on Windows.
\* Its first statement reads read_fd (handle): where the creation raised,
\* the name was never assigned, UnboundLocalError replaces the exception in
\* flight and the rest of the block is skipped.  os.remove raises
\* FileNotFoundError when nothing is at the path any more.
Finally ==
    /\ pc = "finally"
    /\ IF ~res_bound
       THEN /\ raised' = TRUE
            /\ error' = "UnboundLocalError"
            /\ UNCHANGED fifo_file
       ELSE IF IsPosix /\ fifo_path # <<>> /\ fifo_file = "none"
       THEN /\ raised' = TRUE
            /\ error' = "FileNotFoundError"
            /\ UNCHANGED fifo_file
       ELSE /\ fifo_file' = IF IsPosix /\ fifo_path # <<>> THEN "none"
                            ELSE fifo_file
            /\ UNCHANGED <<raised, error>>
    /\ pc' = IF raised' THEN "raise" ELSE "return"
    /\ UNCHANGED <<argVars, fifo_path, env, child_env, pass_fds, res_bound,
                   filled,
                   pool, ret, exit_code, read_count, reads, report,
                   exit_status, audit_k, audit_live, clientVars>>

\* return exit_code, and sys.exit(main())
MainReturn ==
    /\ pc = "return"
    /\ exit_status' = <<exit_code>>
    /\ pc' = "done"
    /\ UNCHANGED <<argVars, ioVars, pool, ret, exit_code, read_count, reads, report,
                   raised, audit_k, audit_live, clientVars>>

\* an exception leaves main(): traceback, status 1
MainRaise ==
    /\ pc = "raise"
    /\ exit_status' = <<UncaughtExceptionStatus>>
    /\ pc' = "done"
    /\ UNCHANGED <<argVars, ioVars, pool, ret, exit_code, read_count, reads, report,
                   raised, audit_k, audit_live, clientVars>>

\* ------------------------------------------------------ the supervised tree
\* Client c + 1 is started by client c as one of c's jobs (a sub-build).
HasLiveSub(c) == c < NClients /\ cstate[c + 1] = "alive"

\* slots of client c in use: its own jobs and the sub-build it waits for
Uses(c) == running[c] + (IF HasLiveSub(c) THEN 1 ELSE 0)

\* slots client c may use: the implicit one and one per token it holds
Slots(c) == 1 + held[c]

\* the child found the pool in MAKEFLAGS
Advertised == jobs_count > 0

\* the environment a client gives the processes it spawns: its own
InheritedEnv(e) == e

\* the environment of client c, once spawned: the command's is the one
\* main() gave it, a sub-build's is the one its parent handed down
RECURSIVE EnvOf(_)
EnvOf(c) == IF c = 1 THEN child_env[1] ELSE InheritedEnv(EnvOf(c - 1))

\* a client starts a sub-build on a free slot
SpawnSub(c) ==
    /\ cstate[c] = "alive"
    /\ c < NClients
    /\ cstate[c + 1] = "unborn"
    /\ ~Advertised \/ Uses(c) < Slots(c)
    /\ cstate' = [cstate EXCEPT ![c + 1] = "alive"]
    /\ UNCHANGED <<argVars, mainVars, ioVars, pool, held, running, todo, leaked, extra>>

\* a client starts a queued job: with a pool, only on a free slot
StartJob(c) ==
    /\ cstate[c] = "alive"
    /\ todo > 0
    /\ ~Advertised \/ Uses(c) < Slots(c)
    /\ running' = [running EXCEPT ![c] = @ + 1]
    /\ todo' = todo - 1
    /\ UNCHANGED <<argVars, mainVars, ioVars, pool, cstate, held, leaked, extra>>

FinishJob(c) ==
    /\ cstate[c] = "alive"
    /\ running[c] > 0
    /\ running' = [running EXCEPT ![c] = @ - 1]
    /\ UNCHANGED <<argVars, mainVars, ioVars, pool, cstate, held, todo, leaked, extra>>

\* acquire: read one byte / wait on the semaphore, for one more queued job
Acquire(c) ==
    /\ cstate[c] = "alive"
    /\ Advertised
    /\ todo > 0
    /\ Uses(c) = Slots(c)
    /\ pool > 0
    /\ pool' = pool - 1
    /\ held' = [held EXCEPT ![c] = @ + 1]
    /\ UNCHANGED <<argVars, mainVars, ioVars, cstate, running, todo, leaked, extra>>

\* what the primitive holds after one token is given back: a write to a full
\* FIFO/pipe waits for room, a release on a semaphore at its maximum fails
CanGiveBack == IF IsPosix THEN pool < capacity ELSE TRUE

AfterGiveBack ==
    IF IsPosix THEN pool + 1
    ELSE IF pool + 1 > SemMaximum(jobs_count) THEN pool ELSE pool + 1

\* release: return a token the client holds and no longer uses
Release(c) ==
    /\ cstate[c] = "alive"
    /\ Advertised
    /\ held[c] > 0
    /\ Uses(c) < Slots(c)
    /\ CanGiveBack
    /\ pool' = AfterGiveBack
    /\ held' = [held EXCEPT ![c] = @ - 1]
    /\ UNCHANGED <<argVars, mainVars, ioVars, cstate, running, todo, leaked, extra>>

\* protocol violation: a client returns a token it never acquired
ExtraRelease(c) ==
    /\ cstate[c] = "alive"
    /\ Advertised
    /\ extra < MaxExtra
    /\ CanGiveBack
    /\ pool' = AfterGiveBack
    /\ extra' = extra + 1
    /\ UNCHANGED <<argVars, mainVars, ioVars, cstate, held, running, todo, leaked>>

\* a descendant exits; holding tokens at exit loses them (protocol violation)
DescendantExit(c) ==
    /\ c > 1
    /\ cstate[c] = "alive"
    /\ running[c] = 0
    /\ leaked + held[c] <= MaxLeak
    /\ cstate' = [cstate EXCEPT ![c] = "exited"]
    /\ leaked' = leaked + held[c]
    /\ held' = [held EXCEPT ![c] = 0]
    /\ UNCHANGED <<argVars, mainVars, ioVars, pool, running, todo, extra>>

\* the immediately spawned child exits with a return code: subprocess.run
\* returns, whatever the child's descendants are doing
ChildExit(code) ==
    /\ pc = "running"
    /\ cstate[1] = "alive"
    /\ running[1] = 0
    /\ leaked + held[1] <= MaxLeak
    /\ cstate' = [cstate EXCEPT ![1] = "exited"]
    /\ leaked' = leaked + held[1]
    /\ held' = [held EXCEPT ![1] = 0]
    /\ ret' = <<code>>
    /\ pc' = "waited"
    /\ UNCHANGED <<argVars, ioVars, pool, exit_code, read_count, reads, report, raised,
                   exit_status, audit_k, audit_live, running, todo, extra>>

\* -------------------------------------------------------------------- Next
Next ==
    \/ PrintUsage
    \/ ParserError
    \/ CreateFifo
    \/ CreatePipe
    \/ CreateSem
    \/ \E ok \in BOOLEAN : SpawnChild(ok)
    \/ \E code \in ExitCodes : ChildExit(code)
    \/ AfterWait
    \/ CheckPipeTokens
    \/ DrainRead
    \/ ComparePipe
    \/ CheckSemCount
    \/ Finally
    \/ MainReturn
    \/ MainRaise
    \/ \E c \in Clients : SpawnSub(c)
    \/ \E c \in Clients : StartJob(c)
    \/ \E c \in Clients : FinishJob(c)
    \/ \E c \in Clients : Acquire(c)
    \/ \E c \in Clients : Release(c)
    \/ \E c \in Clients : ExtraRelease(c)
    \/ \E c \in Clients : DescendantExit(c)

Spec == Init /\ [][Next]_vars

\* ---- the runs of jobserver_pool_test.py: the command only echoes MAKEFLAGS
\* and exits, it starts no job and touches no token; job counts of two
\* digits and below zero, relative and absolute FIFO paths, names with a
\* blank, with and without an inherited MAKEFLAGS or a file at the FIFO path
EchoJobsCounts == -1..MaxEchoJobs

InitEcho ==
    InitWith(EchoJobsCounts, Environs, Cwds, FifoArgs, SemNames, PipeFds,
             {"none", "stale"})

NextEcho ==
    \/ PrintUsage
    \/ ParserError
    \/ CreateFifo
    \/ CreatePipe
    \/ CreateSem
    \/ \E ok \in BOOLEAN : SpawnChild(ok)
    \/ \E code \in ExitCodes : ChildExit(code)
    \/ AfterWait
    \/ CheckPipeTokens
    \/ DrainRead
    \/ ComparePipe
    \/ CheckSemCount
    \/ Finally
    \/ MainReturn
    \/ MainRaise

SpecEcho == InitEcho /\ [][NextEcho]_vars

\* ---- the command is itself a run of this script with the same FIFO path
\* (the default path, in the working directory it inherits)
InitNested ==
    /\ InitWith(1..MaxJobs, Environs, {<<"/", "w">>}, {DefaultName},
                {DefaultName}, {<<3, 4>>}, {"none", "stale"})
    /\ backend = "fifo"

\* create_fifo of the nested run: os.path.exists(path), os.remove(path),
\* os.mkfifo(path).  What was at the path is unlinked; the descriptors
\* another process holds on it stay open on the unlinked object.
NestedCreate ==
    /\ pc = "running"
    /\ cstate[1] = "alive"
    /\ fifo_file # "nested"
    /\ fifo_file' = "nested"
    /\ UNCHANGED <<argVars, mainVars, fifo_path, env, child_env, pass_fds,
                   res_bound, error, filled, pool, clientVars>>

\* the finally block of the nested run: os.remove(fifo_path)
NestedRelease ==
    /\ pc = "running"
    /\ cstate[1] = "alive"
    /\ fifo_file = "nested"
    /\ fifo_file' = "none"
    /\ UNCHANGED <<argVars, mainVars, fifo_path, env, child_env, pass_fds,
                   res_bound, error, filled, pool, clientVars>>

\* the command exits; a nested run exits after its finally block
NestedExit(code) == fifo_file # "nested" /\ ChildExit(code)

NextNested ==
    \/ PrintUsage
    \/ ParserError
    \/ CreateFifo
    \/ \E ok \in BOOLEAN : SpawnChild(ok)
    \/ NestedCreate
    \/ NestedRelease
    \/ \E code \in ExitCodes : NestedExit(code)
    \/ AfterWait
    \/ CheckPipeTokens
    \/ DrainRead
    \/ ComparePipe
    \/ Finally
    \/ MainReturn
    \/ MainRaise

SpecNested == InitNested /\ [][NextNested]_vars

\* ---- check_pipe_tokens applied to every content of the reservoir: main()
\* is about to call it, the command has exited with 0, every process of the
\* tree is gone, and the reservoir holds what the fill, the leaks and the
\* surplus releases of the tree have left in it
InitAudit ==
    /\ jobs_count \in 1..MaxJobs
    /\ backend \in {"fifo", "pipe"}
    /\ no_check = FALSE
    /\ capacity \in Capacities
    /\ backend = "pipe" => InitialTokens(jobs_count) <= capacity
    /\ command = TRUE
    /\ help_usage = FALSE
    /\ environ \in {e \in Environs : "MAKEFLAGS" \in DOMAIN e}
    /\ cwd = <<"/", "w">>
    /\ fifo_arg = DefaultName
    /\ sem_name = DefaultName
    /\ pipe_fds = <<3, 4>>
    /\ os_fail = "none"
    /\ filled = IF backend = "fifo"
                THEN NonBlockingWrite(InitialTokens(jobs_count), capacity)
                ELSE InitialTokens(jobs_count)
    /\ leaked \in 0..MaxLeak
    /\ extra \in 0..MaxExtra
    /\ pool = filled - leaked + extra
    /\ pool >= 0
    /\ pool <= capacity
    /\ pc = "check"
    /\ ret = <<0>>
    /\ exit_code = 0
    /\ read_count = 0
    /\ reads = 0
    /\ report = NoReport
    /\ raised = FALSE
    /\ exit_status = <<>>
    /\ audit_k = 0
    /\ audit_live = 0
    /\ fifo_path = IF backend = "fifo" THEN Abspath(cwd, fifo_arg) ELSE <<>>
    /\ env = <<SetEnv(environ, "MAKEFLAGS",
                      IF backend = "fifo"
                      THEN MakeflagsFifo(jobs_count, fifo_path)
                      ELSE MakeflagsPipe(jobs_count, pipe_fds[1],
                                         pipe_fds[2]))>>
    /\ child_env = env
    /\ pass_fds = PassFds
    /\ fifo_file = IF backend = "fifo" THEN "fifo" ELSE "stale"
    /\ res_bound = TRUE
    /\ error = "none"
    /\ cstate = [c \in Clients |-> IF c = 1 THEN "exited" ELSE "unborn"]
    /\ held = [c \in Clients |-> 0]
    /\ running = [c \in Clients |-> 0]
    /\ todo = 0

NextAudit ==
    \/ CheckPipeTokens
    \/ DrainRead
    \/ ComparePipe
    \/ Finally
    \/ MainReturn

\* the supervisor is a running process: it keeps taking its next step
SpecAudit == InitAudit /\ [][NextAudit]_vars /\ WF_vars(NextAudit)

\* ---- the builds of jobserver_test.py: the command is a cooperating client
\* whose jobs outlast the time it takes to start the others (tasks of 50 ms),
\* which gives a token back once it has no job left to start on it, and
\* which exits when the build is done, after its sub-build
CanStartMore ==
    \E c \in Clients :
        /\ cstate[c] = "alive"
        /\ todo > 0
        /\ ~Advertised \/ Uses(c) < Slots(c) \/ pool > 0

LongFinishJob(c) == ~CanStartMore /\ FinishJob(c)

ReleaseIdle(c) == todo = 0 /\ Release(c)

OrderlyDescendantExit(c) ==
    /\ todo = 0
    /\ held[c] = 0
    /\ ~HasLiveSub(c)
    /\ DescendantExit(c)

OrderlyChildExit(code) ==
    /\ todo = 0
    /\ held[1] = 0
    /\ ~HasLiveSub(1)
    /\ ChildExit(code)

NextBuild ==
    \/ PrintUsage
    \/ ParserError
    \/ CreateFifo
    \/ CreatePipe
    \/ CreateSem
    \/ SpawnChild(TRUE)
    \/ \E code \in ExitCodes : OrderlyChildExit(code)
    \/ AfterWait
    \/ CheckPipeTokens
    \/ DrainRead
    \/ ComparePipe
    \/ CheckSemCount
    \/ Finally
    \/ MainReturn
    \/ MainRaise
    \/ \E c \in Clients : SpawnSub(c)
    \/ \E c \in Clients : StartJob(c)
    \/ \E c \in Clients : LongFinishJob(c)
    \/ \E c \in Clients : Acquire(c)
    \/ \E c \in Clients : ReleaseIdle(c)
    \/ \E c \in Clients : OrderlyDescendantExit(c)

\* every process of the build keeps taking steps while it has one to take
SpecBuild == Init /\ [][NextBuild]_vars /\ WF_vars(NextBuild)

\* ------------------------------------------------------------------ claims
\* main() is at or past the point where the auditor returned
AfterAudit == pc \in {"finally", "return", "raise", "done"}

\* the auditor obtained a token count from the reservoir
Measured == reads > 0 /\ ~raised

\* no client of the tree broke the acquire/release protocol
Cooperating == leaked = 0 /\ extra = 0

\* the auditor is about to read the reservoir
AuditReading ==
    \/ pc = "drain"
    \/ pc = "check" /\ backend = "sem" /\ jobs_count > 1

\* C1: with cooperating clients, from pool creation to the audit, the tokens
\* in the reservoir plus the tokens held by clients are jobs_count - 1.
C1_Conservation ==
    (jobs_count > 1 /\ Cooperating
        /\ pc \in {"created", "running", "waited", "check"})
    => pool + HeldTotal = jobs_count - 1

\* C2: right after create_fifo / create_pipe / create_sem returned, before the
\* child is spawned, the reservoir holds exactly jobs_count - 1 tokens.
C2_InitialFill ==
    (jobs_count > 1 /\ pc = "created") => pool = jobs_count - 1

\* C3: when every client acquires and releases correctly and the command
\* exits 0, the audit measures jobs_count - 1 tokens, passes, and the final
\* exit code is 0.
C3_RoundTrip ==
    (pc = "done" /\ jobs_count > 1 /\ ~no_check /\ ret = <<0>> /\ Cooperating)
    => /\ Measured
       /\ read_count = jobs_count - 1
       /\ report = NoReport
       /\ exit_status = <<0>>

\* C4: when one token was acquired and never released, and the command exits
\* 0 with auditing enabled, the audit reports exactly one missing token and
\* the final exit code is the audit-failure code.
C4_LeakDetected ==
    (pc = "done" /\ jobs_count > 1 /\ ~no_check /\ ret = <<0>>
        /\ leaked = 1 /\ extra = 0)
    => /\ report = [kind |-> "missing", n |-> 1]
       /\ exit_status = <<AuditFailureCode>>

\* C5: when one token was released that was never acquired, and the command
\* exits 0 with auditing enabled, the audit reports exactly one extra token
\* and the final exit code is the audit-failure code, on every backend.
C5_OverReleaseDetected ==
    (pc = "done" /\ jobs_count > 1 /\ ~no_check /\ ret = <<0>>
        /\ leaked = 0 /\ extra = 1)
    => /\ report = [kind |-> "extra", n |-> 1]
       /\ exit_status = <<AuditFailureCode>>

\* C6: with a pool of jobs_count and cooperating clients, at most jobs_count
\* jobs run at the same time.
C6_Ceiling ==
    (Advertised /\ Cooperating) => RunningTotal <= jobs_count

\* C7: the final exit code is the child's code c when c # 0; when c = 0 it is
\* 1 if the audit measured a count other than jobs_count - 1, and 0 otherwise.
C7_ExitCodeMapping ==
    (pc = "done" /\ jobs_count > 0 /\ ret # <<>>)
    => exit_status =
         << IF ret[1] # 0 THEN ret[1]
            ELSE IF Measured /\ read_count # jobs_count - 1 THEN 1
            ELSE 0 >>

\* C8: the auditor reads the reservoir if and only if the command exited 0,
\* --no-check was not given and jobs_count > 1.
C8_AuditGating ==
    /\ reads > 0 => (ret = <<0>> /\ ~no_check /\ jobs_count > 1)
    /\ (AfterAudit /\ ret = <<0>> /\ ~no_check /\ jobs_count > 1) => reads > 0

\* a run in which the command exited 0, auditing was enabled and the auditor
\* read the reservoir
C8_Witness ==
    pc = "done" /\ reads > 0 /\ ret = <<0>> /\ ~no_check /\ jobs_count > 1

\* C9: when the audit reads the reservoir, no process of the supervised tree
\* is alive.
C9_AuditAfterTree == AuditReading => Alive = {}

\* C10 as stated: check_pipe_tokens leaves in the reservoir the k tokens it
\* found there (no client alive during the audit).
C10_NonDestructive ==
    (IsPosix /\ reads > 0 /\ AfterAudit /\ audit_live = 0) => pool = audit_k

\* C10 amended: check_pipe_tokens counts the k tokens it found by removing
\* them; when it returns the reservoir is empty (no client alive during the
\* audit).
C10_DrainsReservoir ==
    (IsPosix /\ reads > 0 /\ AfterAudit /\ audit_live = 0)
    => (read_count = audit_k /\ pool = 0)

\* an audit with no client alive that found two tokens and left none
C10_Witness ==
    IsPosix /\ AfterAudit /\ audit_live = 0 /\ audit_k = 2 /\ pool = 0

\* C11: on the semaphore backend the audit issues exactly one increment of
\* 1, measures the count reported as prior to it, and leaves the semaphore
\* with the count it had before the audit.
C11_SemaphorePeek ==
    (backend = "sem" /\ reads > 0 /\ AfterAudit /\ audit_live = 0) =>
        /\ reads = 1
        /\ ~raised
        /\ read_count = audit_k
        /\ pool = audit_k

\* C12, as the code builds the value: for jobs_count > 0 the child's
\* MAKEFLAGS is " -j<N> --jobserver-auth=<address>" with N = jobs_count,
\* and the address is "fifo:" and the absolute path (also for a relative
\* --fifo) or the bare semaphore name; for the pipe the value is
\* " -j<N> --jobserver-fds=<r>,<w> --jobserver-auth=<r>,<w>".
C12_MakeflagsAsBuilt ==
    (jobs_count > 0 /\ child_env # <<>>) =>
        LET value == child_env[1]["MAKEFLAGS"]
            count == <<" ", "-", "j">> \o FormatInt(jobs_count)
            path == IF fifo_arg[1] = "/" THEN fifo_arg
                    ELSE cwd \o <<"/">> \o fifo_arg
            fds == FormatInt(pipe_fds[1]) \o <<",">> \o FormatInt(pipe_fds[2])
        IN CASE backend = "fifo" ->
                    /\ path[1] = "/"
                    /\ value = count \o AuthFlag \o <<"f", "i", "f", "o", ":">>
                                     \o path
             [] backend = "pipe" ->
                    value = count \o FdsFlag \o fds \o AuthFlag \o fds
             [] backend = "sem" -> value = count \o AuthFlag \o sem_name

\* C12, as stated: for jobs_count > 0 and every backend the child's
\* MAKEFLAGS is exactly " -j<N> --jobserver-auth=<address>", the address
\* being "fifo:<absolute path>", "<read-fd>,<write-fd>" or the semaphore
\* name, and nothing else.
C12_MakeflagsGrammar ==
    (jobs_count > 0 /\ child_env # <<>>) =>
        LET value == child_env[1]["MAKEFLAGS"]
            count == <<" ", "-", "j">> \o FormatInt(jobs_count)
            path == IF fifo_arg[1] = "/" THEN fifo_arg
                    ELSE cwd \o <<"/">> \o fifo_arg
            fds == FormatInt(pipe_fds[1]) \o <<",">> \o FormatInt(pipe_fds[2])
            address == CASE backend = "fifo" ->
                                <<"f", "i", "f", "o", ":">> \o path
                         [] backend = "pipe" -> fds
                         [] backend = "sem" -> sem_name
        IN value = count \o AuthFlag \o address

\* a pipe pool of more than one slot was advertised to the command
C12_Witness == backend = "pipe" /\ jobs_count > 1 /\ child_env # <<>>

\* C13, as the code has it: parsing the advertised value gives back
\* jobs_count; for a FIFO path or semaphore name without whitespace it
\* gives back the address too, and for one with whitespace the address up
\* to the first blank; the value of a pipe pool parses as " -j", count,
\* " --jobserver-fds=", descriptors, " --jobserver-auth=", descriptors.
C13_RoundTripAsBuilt ==
    (jobs_count > 0 /\ child_env # <<>>) =>
        LET value == child_env[1]["MAKEFLAGS"]
            address == IF backend = "fifo" THEN fifo_path ELSE sem_name
            fds == FormatInt(pipe_fds[1]) \o <<",">> \o FormatInt(pipe_fds[2])
            m == SimpleScanf(ExpectedFormat, value)
            p == SimpleScanf(JFlag \o <<"%", "d">> \o FdsFlag \o <<"%", "s">>
                             \o AuthFlag \o <<"%", "s">>, value)
        IN IF backend = "pipe"
           THEN p.ok /\ p.values = <<jobs_count, fds, fds>>
           ELSE /\ m.ok
                /\ m.values[1] = jobs_count
                /\ m.values[2] = SubSeq(address, 1, LeadingNonSpace(address))

\* C13, as stated: for jobs_count > 0 and every backend address, parsing
\* the advertised value (" -j", count, " --jobserver-auth=", address) gives
\* back the jobs_count that sized the reservoir and the address on which
\* the reservoir was created.
C13_RoundTrip ==
    (jobs_count > 0 /\ child_env # <<>>) =>
        LET value == child_env[1]["MAKEFLAGS"]
            address == CASE backend = "fifo" -> fifo_path
                         [] backend = "pipe" ->
                                FormatInt(pipe_fds[1]) \o <<",">>
                                \o FormatInt(pipe_fds[2])
                         [] backend = "sem" -> sem_name
            m == SimpleScanf(ExpectedFormat, value)
        IN m.ok /\ m.values = <<jobs_count, address>>

\* a FIFO pool of ten or more slots under a relative name was advertised
C13_Witness ==
    /\ backend = "fifo"
    /\ jobs_count >= 10
    /\ fifo_arg = DefaultName
    /\ child_env # <<>>

\* C14: for jobs_count > 0 the child's environment equals the supervisor's
\* on every variable other than MAKEFLAGS, and its MAKEFLAGS is the value
\* built for the pool alone, nothing of an inherited MAKEFLAGS survives.
C14_EnvironmentFrame ==
    (jobs_count > 0 /\ child_env # <<>>) =>
        LET child == child_env[1]
        IN /\ DOMAIN child = DOMAIN environ \cup {"MAKEFLAGS"}
           /\ \A x \in DOMAIN environ \ {"MAKEFLAGS"} : child[x] = environ[x]
           /\ child["MAKEFLAGS"] =
                CASE backend = "fifo" -> MakeflagsFifo(jobs_count, fifo_path)
                  [] backend = "pipe" ->
                        MakeflagsPipe(jobs_count, pipe_fds[1], pipe_fds[2])
                  [] backend = "sem" -> MakeflagsSem(jobs_count, sem_name)

\* the command of a pool was spawned by a supervisor that had inherited a
\* MAKEFLAGS of its own
C14_Witness ==
    /\ jobs_count > 0
    /\ child_env # <<>>
    /\ "MAKEFLAGS" \in DOMAIN environ
    /\ child_env[1]["MAKEFLAGS"] # environ["MAKEFLAGS"]

\* C15: for jobs_count <= 0 and any backend flags no step of the run makes
\* or removes a file at the FIFO path, creates a pipe or a semaphore, puts
\* a token anywhere or audits; the child's environment is the supervisor's,
\* MAKEFLAGS included; the final exit code is the child's.
C15_DisabledMode ==
    [][jobs_count <= 0 =>
          /\ UNCHANGED <<fifo_file, fifo_path, env, res_bound, filled, pool,
                         reads, report>>
          /\ child_env' # <<>> => child_env' = <<environ>>
          /\ (exit_status' # <<>> /\ ret' # <<>>) => exit_status' = ret']_vars

\* a run with a negative jobs_count, an inherited MAKEFLAGS and a file at
\* the FIFO path has ended with the exit code of its failed command
C15_Witness ==
    /\ jobs_count < 0
    /\ pc = "done"
    /\ ret # <<>>
    /\ ret[1] # 0
    /\ exit_status = ret
    /\ ~no_check
    /\ "MAKEFLAGS" \in DOMAIN environ
    /\ child_env = <<environ>>
    /\ fifo_file = "stale"

\* C16, as the code has it: with no command and no --help-usage the run
\* ends with exit code 2, argparse's status for a usage error, with no
\* reservoir created and no child spawned.
C16_MissingCommandExitsTwo ==
    (~command /\ ~help_usage) =>
        /\ ~res_bound /\ env = <<>> /\ fifo_path = <<>> /\ filled = 0
        /\ pool = 0
        /\ cstate[1] = "unborn" /\ child_env = <<>>
        /\ pc \in {"start", "done"}
        /\ pc = "done" => exit_status = <<2>>

\* C16, as stated: with no command and no --help-usage the run ends with
\* exit code 1, with no reservoir created and no child spawned.
C16_MissingCommand ==
    (~command /\ ~help_usage) =>
        /\ ~res_bound /\ env = <<>> /\ fifo_path = <<>> /\ filled = 0
        /\ pool = 0
        /\ cstate[1] = "unborn" /\ child_env = <<>>
        /\ pc \in {"start", "done"}
        /\ pc = "done" => exit_status = <<1>>

\* a run without a command has ended
C16_Witness == ~command /\ ~help_usage /\ pc = "done" /\ jobs_count > 1

\* C17, as the code has it: every conservation mismatch ends the run with
\* the one non-zero exit code 1, after a command that exited 0; a command
\* that itself exits 1 ends the run with the same code.
C17_AuditFailureIsOne ==
    (pc = "done" /\ report # NoReport) =>
        /\ exit_status = <<1>>
        /\ ret = <<0>>

\* C17, as stated: the exit code of a conservation mismatch is distinct
\* from every exit code a failing command can produce: no run whose
\* command failed ends with it.
C17_Distinguishable ==
    (pc = "done" /\ ret # <<>> /\ ret[1] # 0 /\ report = NoReport) =>
        exit_status # <<AuditFailureCode>>

\* a run has ended on a report of two missing tokens
C17_Witness == pc = "done" /\ report = [kind |-> "missing", n |-> 2]

\* C18: a creation that fails in any of its calls ends the run in a fatal
\* error without a command ever started, and a command is only ever
\* spawned against a fully created and fully filled reservoir.
C18_PreSpawnFatality ==
    jobs_count > 0 =>
        /\ os_fail # "none" =>
              /\ cstate[1] = "unborn"
              /\ pc = "done" => exit_status = <<UncaughtExceptionStatus>>
        /\ cstate[1] # "unborn" =>
              /\ res_bound
              /\ env # <<>>
              /\ backend = "fifo" => fifo_path # <<>>
              /\ filled = jobs_count - 1

\* C19: for jobs_count = 1 and every backend a reservoir of zero tokens is
\* created, the command is spawned with MAKEFLAGS advertising -j1 and the
\* address, and the audit returns success without reading the reservoir,
\* whatever it holds.
C19_DegeneratePool ==
    (jobs_count = 1 /\ Proceeds /\ os_fail = "none") =>
        /\ pc # "start" => (res_bound /\ filled = 0 /\ env # <<>>)
        /\ child_env # <<>> =>
              SubSeq(child_env[1]["MAKEFLAGS"], 1, 5)
                  = <<" ", "-", "j", "1", " ">>
        /\ reads = 0
        /\ report = NoReport
        /\ (pc = "done" /\ ret = <<0>>) => exit_status = <<0>>

\* C20: on the FIFO backend what was at the path before is removed before
\* the FIFO is made, so that the reservoir the command runs against is this
\* run's own FIFO holding this run's tokens only; and once a run whose FIFO
\* was created has ended, by the command's success or failure, an audit
\* mismatch or a failed spawn, no file is at the path.
C20_FifoLifecycle ==
    (backend = "fifo" /\ jobs_count > 0) =>
        /\ pc = "created" => (fifo_file = "fifo" /\ pool = filled)
        /\ pc \in {"running", "waited", "check", "drain", "compare"} =>
              fifo_file = "fifo"
        /\ (pc \in {"return", "raise", "done"} /\ res_bound) =>
              fifo_file = "none"

\* a FIFO run whose command could not be spawned has ended
C20_Witness ==
    /\ backend = "fifo"
    /\ pc = "done"
    /\ res_bound
    /\ child_env = <<>>
    /\ fifo_file = "none"

\* the place of each point of main() in the life of the pool: 1 created and
\* advertised in env, 2 in use by the command, 3 to 6 audited, 7 on its way
\* to the release, 8 and 9 released
LifecycleRank ==
    [p \in {"start", "created", "fill_blocked", "running", "waited", "check",
            "drain", "compare", "finally", "return", "raise", "done"} |->
        CASE p = "start" -> 0
          [] p \in {"created", "fill_blocked"} -> 1
          [] p = "running" -> 2
          [] p = "waited" -> 3
          [] p = "check" -> 4
          [] p = "drain" -> 5
          [] p = "compare" -> 6
          [] p = "finally" -> 7
          [] p \in {"return", "raise"} -> 8
          [] p = "done" -> 9]

\* main() has left its finally block
Released == pc \in {"return", "raise", "done"}

\* C21: a run with jobs_count > 0 goes through created, advertised, in use,
\* audited, released in that order and never back; the reservoir is audited
\* at most once; audit and release come only after the spawned command has
\* exited; and nothing reads or writes the reservoir after the release.
C21_LifecycleOrder ==
    /\ [](jobs_count > 0 =>
            /\ pc \in {"running", "waited"} => (env # <<>> /\ child_env = env)
            /\ (reads > 0 \/ LifecycleRank[pc] \in 4..6) => child_env # <<>>
            /\ (child_env # <<>> /\ LifecycleRank[pc] >= 3) =>
                  cstate[1] = "exited"
            /\ backend = "sem" => reads <= 1)
    /\ [][jobs_count > 0 =>
            /\ pc' # pc => LifecycleRank[pc'] > LifecycleRank[pc]
            /\ reads' # reads => pc \in {"check", "drain"}
            /\ Released => pool' = pool]_vars

\* C22: once started, the audit of a FIFO or pipe pool ends, whatever the
\* reservoir holds (nothing, jobs_count - 1 tokens, more) and with no
\* process writing to it: it reads each token present once, then the read
\* that finds the reservoir empty ends it, without waiting for a token.
C22_AuditTerminates ==
    /\ (pc \in {"check", "drain", "compare"}) ~> (pc = "finally")
    /\ [](pc \in {"drain", "compare", "finally"} =>
            /\ reads <= audit_k + 1
            /\ pc = "finally" /\ jobs_count > 1 => reads = audit_k + 1)
    /\ [][pc = "drain" => pc' = "compare" \/ pool' = pool - 1]_vars

\* the audit of an empty reservoir has ended after its one read
C22_Witness ==
    /\ pc = "finally"
    /\ jobs_count > 1
    /\ audit_k = 0
    /\ reads = 1
    /\ read_count = 0

\* t in s, for str s and t
Contains(s, t) ==
    \E i \in 1..(Len(s) - Len(t) + 1) : SubSeq(s, i, i + Len(t) - 1) = t

\* how many times t occurs in s
Occurrences(s, t) ==
    Cardinality({i \in 1..(Len(s) - Len(t) + 1) :
                    SubSeq(s, i, i + Len(t) - 1) = t})

\* the address of the pool this run created, as a client reads it
PoolAddress ==
    CASE backend = "fifo" -> FifoScheme \o fifo_path
      [] backend = "pipe" ->
            FormatInt(pipe_fds[1]) \o <<",">> \o FormatInt(pipe_fds[2])
      [] backend = "sem" -> sem_name

\* C23: in a run that created a pool, every process of the tree, at any
\* depth, sees a MAKEFLAGS holding --jobserver-auth= followed by the address
\* of that pool, and no other --jobserver-auth=.
C23_DiscoveryDownTree ==
    jobs_count > 0 =>
        \A c \in Clients :
            cstate[c] # "unborn" =>
                /\ "MAKEFLAGS" \in DOMAIN EnvOf(c)
                /\ Contains(EnvOf(c)["MAKEFLAGS"], AuthFlag \o PoolAddress)
                /\ Occurrences(EnvOf(c)["MAKEFLAGS"], AuthFlag) = 1

\* a sub-build runs below the command of a run that had flags of its own in
\* MAKEFLAGS
C23_Witness ==
    /\ jobs_count > 0
    /\ "MAKEFLAGS" \in DOMAIN environ
    /\ cstate[NClients] = "alive"
    /\ Contains(EnvOf(NClients)["MAKEFLAGS"], AuthFlag \o PoolAddress)

C25_AuditMeasurement ==
    (IsPosix /\ jobs_count > 1 /\ reads > 0 /\ AfterAudit /\ audit_live = 0)
    =>  LET k == audit_k
            expected == jobs_count - 1
        IN /\ read_count = k
           /\ exit_code = 0 <=> k = expected
           /\ k = expected => report = NoReport
           /\ k < expected =>
                 /\ exit_code = 1
                 /\ report = [kind |-> "missing", n |-> expected - k]
           /\ k > expected =>
                 /\ exit_code = 1
                 /\ report = [kind |-> "extra", n |-> k - expected]

\* the audit of a reservoir holding one token more than the pool was
\* created with has reported it
C25_Witness ==
    /\ IsPosix
    /\ jobs_count > 1
    /\ AfterAudit
    /\ audit_live = 0
    /\ audit_k = jobs_count
    /\ read_count = audit_k
    /\ exit_code = 1
    /\ report = [kind |-> "extra", n |-> 1]

\* C27: the command is given the two descriptors of the reservoir, through
\* pass_fds, exactly when the pool is a pipe; in FIFO mode (and in every
\* other run) no descriptor of the supervisor is kept open in the command,
\* which has only the path in MAKEFLAGS to reach the reservoir.
C27_DescriptorPassing ==
    /\ child_env = <<>> => pass_fds = {}
    /\ child_env # <<>> =>
          /\ pass_fds = {pipe_fds[1], pipe_fds[2]}
                <=> (backend = "pipe" /\ jobs_count > 0)
          /\ pass_fds # {pipe_fds[1], pipe_fds[2]} => pass_fds = {}
          /\ (backend = "fifo" /\ jobs_count > 0) =>
                /\ pass_fds = {}
                /\ Contains(child_env[1]["MAKEFLAGS"],
                            AuthFlag \o FifoScheme \o fifo_path)

\* the command of a FIFO run was spawned with none of the supervisor's
\* descriptors
C27_Witness ==
    /\ backend = "fifo"
    /\ jobs_count > 0
    /\ child_env # <<>>
    /\ cstate[1] = "alive"
    /\ pass_fds = {}

\* C26: the audit sees the net count only.  An audited run whose command
\* exited 0, in which one token was leaked by a client and one token was
\* released that no client had acquired, ends with jobs_count - 1 tokens
\* counted, no report and exit code 0.
C26_NetImbalanceOnly ==
    (pc = "done" /\ jobs_count > 1 /\ ~no_check /\ child_env # <<>>
        /\ ret = <<0>> /\ leaked = 1 /\ extra = 1)
    =>  /\ reads > 0
        /\ read_count = jobs_count - 1
        /\ report = NoReport
        /\ exit_status = <<0>>

\* C30: on the semaphore backend with jobs_count > 1, when every token is
\* back (the count is jobs_count - 1, the maximum of the semaphore) and no
\* process of the tree is alive, the audit's ReleaseSemaphore completes,
\* check_sem_count returns 0 without raising, and the run exits 0.
C30_SemaphoreAuditAtFullCount ==
    (backend = "sem" /\ jobs_count > 1 /\ reads > 0 /\ AfterAudit
        /\ audit_k = jobs_count - 1 /\ audit_live = 0)
    =>  /\ ~raised
        /\ read_count = jobs_count - 1
        /\ exit_code = 0
        /\ report = NoReport
        /\ pc = "done" => exit_status = <<0>>

\* C28: with a pool of jobs_count advertised to a cooperating client that
\* has at least jobs_count jobs ready and takes a token whenever one is
\* available, a state with jobs_count jobs running at the same time is
\* reached.
C28_CeilingAttained ==
    (jobs_count > 0 /\ pc = "running" /\ cstate[1] = "alive"
        /\ todo >= jobs_count /\ RunningTotal = 0)
    ~> (RunningTotal = jobs_count)

\* C29, the client's side being the cooperating client of the build: with
\* jobs_count = 1 the client never has two jobs running at the same time,
\* and every job it has queued is eventually run and completed, on its
\* implicit slot, the reservoir staying empty.
C29_ZeroTokenProgress ==
    /\ [](jobs_count = 1 /\ cstate[1] # "unborn" =>
            /\ RunningTotal <= 1
            /\ HeldTotal = 0
            /\ pool = 0)
    /\ (jobs_count = 1 /\ cstate[1] = "alive")
       ~> (todo = 0 /\ RunningTotal = 0)

\* the last queued job runs on the implicit slot over an empty reservoir
C29_Witness ==
    /\ jobs_count = 1
    /\ cstate[1] = "alive"
    /\ pool = 0
    /\ todo = 0
    /\ RunningTotal = 1

\* C31: on the semaphore backend the count stays within 0..jobs_count - 1
\* from creation to release: no client gets a token from a semaphore at 0,
\* a release at the maximum leaves the count where it is, and the count the
\* audit measures is never greater than jobs_count - 1.
C31_SemaphoreBounds ==
    /\ [](backend = "sem" /\ jobs_count > 0 =>
            /\ pool >= 0
            /\ pool <= jobs_count - 1
            /\ reads > 0 => audit_k <= jobs_count - 1
            /\ (reads > 0 /\ ~raised) => read_count <= jobs_count - 1)
    /\ [][backend = "sem" /\ jobs_count > 0 =>
            /\ pool = 0 => HeldTotal' + leaked' <= HeldTotal + leaked
            /\ pool = jobs_count - 1 => pool' <= pool]_vars

\* a surplus release was attempted on a semaphore at its maximum, and the
\* count is still the maximum
C31_Witness ==
    /\ backend = "sem"
    /\ jobs_count > 1
    /\ Alive # {}
    /\ extra > 0
    /\ HeldTotal = 0
    /\ leaked = 0
    /\ pool = jobs_count - 1

\* C32: for every jobs_count > 0 and every capacity of the FIFO buffer, the
\* fill of create_fifo either puts all jobs_count - 1 tokens in the
\* reservoir or the run fails before the command is spawned: the command
\* never runs against a FIFO that was given fewer tokens than the -j<N> of
\* MAKEFLAGS implies.
C32_AllOrNothingFill ==
    (backend = "fifo" /\ jobs_count > 0 /\ Proceeds /\ pc # "start") =>
        \/ /\ res_bound
           /\ filled = InitialTokens(jobs_count)
           /\ pc = "created" => pool = filled
        \/ /\ raised
           /\ child_env = <<>>
           /\ cstate[1] = "unborn"

\* C33: for every jobs_count > 0 and every capacity of the pipe buffer,
\* create_pipe returns or raises: the supervisor that has started creating
\* a pipe pool gets past the write of the tokens.
C33_PipeCreationTerminates ==
    (backend = "pipe" /\ jobs_count > 0 /\ Proceeds /\ pc = "start")
    ~> (pc \notin {"start", "fill_blocked"})

\* C34: when the command runs the pool provider on the FIFO path of the
\* pool it runs under, the outer pool's FIFO stays at its path for as long
\* as the outer pool is live, the nested run leaves the outer tokens alone,
\* and the outer run's audit and cleanup complete without an exception.
C34_NestedIsolation ==
    /\ [](backend = "fifo" /\ jobs_count > 0 /\ child_env # <<>> =>
            /\ pc \in {"running", "waited", "check", "drain", "compare",
                       "finally"} => fifo_file = "fifo"
            /\ ~raised
            /\ error = "none"
            /\ pc = "done" => exit_status = <<exit_code>>)
    /\ [][(fifo_file' # fifo_file /\ pc = "running") => pool' = pool]_vars

\* C35: when the creation of the reservoir fails, the cleanup uses no
\* descriptor or handle that was never assigned and removes nothing at a
\* path where this run made no FIFO, and the exception the run ends with is
\* the one the creation raised.
C35_CleanupAfterFailedCreation ==
    /\ [](jobs_count > 0 /\ Proceeds /\ ~res_bound
            /\ pc \in {"raise", "done"} =>
                /\ error # "UnboundLocalError"
                /\ error \in {"OSError", "pywintypes.error"}
                /\ pc = "done" => exit_status = <<UncaughtExceptionStatus>>)
    /\ [][(pc = "finally" /\ ~res_bound /\ fifo_file # "fifo") =>
            fifo_file' = fifo_file]_vars
====
